---- MODULE Spec2Model ----
(***************************************************************************)
(* depthlog pretty printer (src/bin/pretty.rs): the logfmt parser, the     *)
(* timestamp normaliser, the line formatter and the driver loop of main.   *)
(*                                                                         *)
(* A string is the sequence of its UTF-8 bytes (0..255), as Rust holds     *)
(* it.  A character is the tuple of the bytes that encode it; the inputs   *)
(* are built from characters, so every input string is valid UTF-8.        *)
(***************************************************************************)
EXTENDS Integers, Sequences, FiniteSets, TLC

VARIABLES
    env_NO_COLOR,     \* "unset" or "set": the NO_COLOR environment variable
    env_FORCE_COLOR,  \* "unset" or the variable's value "", "0", "1"
    is_terminal,      \* stdout.is_terminal()
    use_color,        \* main's use_color
    stdin,            \* the input stream: the sequence of its lines
    next,             \* index in stdin of the line the loop reads next
    out,              \* main's buffer `out`
    stdout,           \* what the process has written to standard output
    locals,           \* the locals of the last loop iteration that formatted
    pc,               \* position of the process / of the function under check
    arg,              \* argument of the function under check
    ret,              \* its result
    arg2,             \* the re-serialised (or quoted) line
    ret2              \* the result of parsing arg2

vars == <<env_NO_COLOR, env_FORCE_COLOR, is_terminal, use_color, stdin, next,
          out, stdout, locals, pc, arg, ret, arg2, ret2>>

driverVars == <<env_NO_COLOR, env_FORCE_COLOR, is_terminal, use_color, stdin,
                next, out, stdout, locals>>

callVars == <<arg, ret, arg2, ret2>>

----------------------------------------------------------------------------
(* Bounds of the model *)

\* longest line (in characters) given to parse_logfmt
MaxLen == 5
\* longest line (in characters) of the one-line streams
MaxLineLen == 5
\* longest timestamp (in characters) given to format_time_hms_millis
MaxTsLen == 5
\* longest input stream (in lines) of the driver
MaxLines == 2

----------------------------------------------------------------------------
(* Bytes the program names *)

EQ == 61
QUOTE == 34
BACKSLASH == 92
LF == 10
TAB == 9
CR == 13
LOWER_N == 110
LOWER_T == 116
LOWER_R == 114
UPPER_T == 84
UPPER_Z == 90
PLUS == 43
MINUS == 45
DOT == 46
ZERO == 48
SPACE == 32
QUESTION == 63
ESC == 27

\* u8::is_ascii_whitespace: space, tab, line feed, form feed, carriage return
is_ascii_whitespace(b) == b \in {32, 9, 10, 12, 13}

\* `b as char` followed by String::push: the byte becomes the code point of
\* the same number, which the String holds in UTF-8
as_char(b) == IF b < 128 THEN <<b>> ELSE <<192 + (b \div 64), 128 + (b % 64)>>

\* number of bytes of the UTF-8 character that starts with byte b
Utf8Width(b) ==
    IF b < 128 THEN 1 ELSE IF b < 224 THEN 2 ELSE IF b < 240 THEN 3 ELSE 4

\* str::is_char_boundary(i), i a 0-based byte offset
is_char_boundary(s, i) ==
    \/ i = 0
    \/ i = Len(s)
    \/ i < Len(s) /\ ~(s[i + 1] \in 128..191)

RECURSIVE Flatten(_)
Flatten(cs) == IF cs = <<>> THEN <<>> ELSE Head(cs) \o Flatten(Tail(cs))

\* the characters of a UTF-8 string
RECURSIVE Utf8Chars(_)
Utf8Chars(s) ==
    IF s = <<>> THEN <<>>
    ELSE LET w == IF Utf8Width(s[1]) <= Len(s) THEN Utf8Width(s[1]) ELSE Len(s)
         IN  <<SubSeq(s, 1, w)>> \o Utf8Chars(SubSeq(s, w + 1, Len(s)))

\* all strings of at most n characters over an alphabet of characters
Strings(alphabet, n) ==
    UNION {{Flatten(cs) : cs \in [1..k -> alphabet]} : k \in 0..n}

\* the positions of byte b in s
Positions(s, b) == {j \in 1..Len(s) : s[j] = b}

\* str::find / str::rfind of an ASCII character: the index of the first / last
\* occurrence of byte b in s, 0 when there is none
find(s, b) ==
    IF Positions(s, b) = {} THEN 0
    ELSE CHOOSE j \in Positions(s, b) : \A k \in Positions(s, b) : j <= k

rfind(s, b) ==
    IF Positions(s, b) = {} THEN 0
    ELSE CHOOSE j \in Positions(s, b) : \A k \in Positions(s, b) : j >= k

Count(s, b) == Cardinality(Positions(s, b))

\* str::repeat of a one-byte string
repeat(b, n) == [j \in 1..n |-> b]

----------------------------------------------------------------------------
(* parse_logfmt *)

None == [tag |-> "None"]

Err == [ok |-> FALSE, m |-> <<>>]

Ok(m) == [ok |-> TRUE, m |-> m]

\* HashMap::insert: a later value for the same key replaces the earlier
insert(m, key, val) == (key :> val) @@ m

\* HashMap::get(..).unwrap_or(default)
get_or(m, key, default) == IF key \in DOMAIN m THEN m[key] ELSE default

RECURSIVE SkipWhitespace(_, _)
SkipWhitespace(bytes, i) ==
    IF i <= Len(bytes) /\ is_ascii_whitespace(bytes[i])
    THEN SkipWhitespace(bytes, i + 1)
    ELSE i

RECURSIVE ScanKey(_, _)
ScanKey(bytes, i) ==
    IF i <= Len(bytes) /\ bytes[i] # EQ /\ ~is_ascii_whitespace(bytes[i])
    THEN ScanKey(bytes, i + 1)
    ELSE i

\* a plausible slip: only the end of the line counts as a missing '='
MissingEqAtEndOnly(bytes, i) == i > Len(bytes)

\* the key run is not followed by '='
MissingEq(bytes, i) == i > Len(bytes) \/ bytes[i] # EQ

\* the character pushed for the escape `\esc`
Unescape(esc) ==
    IF esc = QUOTE THEN <<QUOTE>>
    ELSE IF esc = BACKSLASH THEN <<BACKSLASH>>
    ELSE IF esc = LOWER_N THEN <<LF>>
    ELSE IF esc = LOWER_T THEN <<TAB>>
    ELSE IF esc = LOWER_R THEN <<CR>>
    ELSE as_char(esc)

\* the quoted value that starts at i (after the opening quote): the value and
\* the position after it
RECURSIVE ScanQuoted(_, _, _)
ScanQuoted(bytes, i, v) ==
    IF i > Len(bytes) THEN [i |-> i, v |-> v]
    ELSE IF bytes[i] = QUOTE THEN [i |-> i + 1, v |-> v]
    ELSE IF bytes[i] = BACKSLASH
         THEN IF i + 1 > Len(bytes)
              THEN [i |-> i + 1, v |-> v]
              ELSE ScanQuoted(bytes, i + 2, v \o Unescape(bytes[i + 1]))
         ELSE ScanQuoted(bytes, i + 1, v \o as_char(bytes[i]))

RECURSIVE ScanBare(_, _)
ScanBare(bytes, i) ==
    IF i <= Len(bytes) /\ ~is_ascii_whitespace(bytes[i])
    THEN ScanBare(bytes, i + 1)
    ELSE i

\* the value that starts at i (after the '='): quoted or bare
ScanValue(bytes, i) ==
    IF i <= Len(bytes) /\ bytes[i] = QUOTE
    THEN ScanQuoted(bytes, i + 1, <<>>)
    ELSE LET e == ScanBare(bytes, i)
         IN  [i |-> e, v |-> SubSeq(bytes, i, e - 1)]

\* the outer loop of parse_logfmt, at byte i with the mapping m
RECURSIVE ParseLoop(_, _, _)
ParseLoop(bytes, i0, m) ==
    LET i == SkipWhitespace(bytes, i0)
    IN  IF i > Len(bytes) THEN Ok(m)
        ELSE LET k == ScanKey(bytes, i)
             IN  IF MissingEq(bytes, k) THEN Err
                 ELSE LET key == SubSeq(bytes, i, k - 1)
                          val == ScanValue(bytes, k + 1)
                      IN  ParseLoop(bytes, val.i, insert(m, key, val.v))

parse_logfmt(input) == ParseLoop(input, 1, <<>>)

----------------------------------------------------------------------------
(* format_time_hms_millis *)

Some(s) == [tag |-> "Some", s |-> s]

\* a slice taken off a character boundary: the thread panics
Panic == [tag |-> "Panic"]

\* the end of the time of day: the first 'Z', else the first '+', else the
\* last '-'; 0 when there is none
ZoneMarker(rest) ==
    IF find(rest, UPPER_Z) # 0 THEN find(rest, UPPER_Z)
    ELSE IF find(rest, PLUS) # 0 THEN find(rest, PLUS)
    ELSE rfind(rest, MINUS)

\* the milliseconds of a fractional part: frac.len() counts bytes, and
\* frac[..3] panics when byte offset 3 is inside a character
Millis(frac) ==
    IF Len(frac) = 0 THEN Some(<<ZERO, ZERO, ZERO>>)
    ELSE IF Len(frac) = 1 THEN Some(frac \o <<ZERO, ZERO>>)
    ELSE IF Len(frac) = 2 THEN Some(frac \o <<ZERO>>)
    ELSE IF is_char_boundary(frac, 3) THEN Some(SubSeq(frac, 1, 3))
    ELSE Panic

format_time_hms_millis(ts) ==
    LET t_pos == find(ts, UPPER_T)
    IN  IF t_pos = 0 THEN None
        ELSE LET rest == SubSeq(ts, t_pos + 1, Len(ts))
                 end  == ZoneMarker(rest)
             IN  IF end = 0 THEN None
                 ELSE LET time_part == SubSeq(rest, 1, end - 1)
                          dot == find(time_part, DOT)
                      IN  IF dot = 0
                          THEN Some(time_part \o <<DOT, ZERO, ZERO, ZERO>>)
                          ELSE LET hms  == SubSeq(time_part, 1, dot - 1)
                                   frac == SubSeq(time_part, dot + 1, Len(time_part))
                                   ms   == Millis(frac)
                               IN  IF ms.tag = "Panic" THEN Panic
                                   ELSE Some(hms \o <<DOT>> \o ms.s)

----------------------------------------------------------------------------
(* map_level and the ANSI helpers *)

\* char::to_ascii_uppercase of a character
to_ascii_uppercase(c) ==
    IF Len(c) = 1 /\ c[1] \in 97..122 THEN <<c[1] - 32>> ELSE c

\* the first character of a non-empty string
first_char(s) ==
    SubSeq(s, 1, IF Utf8Width(s[1]) <= Len(s) THEN Utf8Width(s[1]) ELSE Len(s))

map_level(level) ==
    IF level = <<105, 110, 102, 111>> THEN <<73>>                          \* "info" => 'I'
    ELSE IF level = <<119, 97, 114, 110>> THEN <<87>>                      \* "warn" => 'W'
    ELSE IF level = <<119, 97, 114, 110, 105, 110, 103>> THEN <<87>>       \* "warning" => 'W'
    ELSE IF level = <<101, 114, 114, 111, 114>> THEN <<69>>                \* "error" => 'E'
    ELSE IF level = <<100, 101, 98, 117, 103>> THEN <<68>>                 \* "debug" => 'D'
    ELSE IF level = <<116, 114, 97, 99, 101>> THEN <<84>>                  \* "trace" => 'T'
    ELSE IF level # <<>> THEN to_ascii_uppercase(first_char(level))
    ELSE <<QUESTION>>

RESET == <<27, 91, 48, 109>>
BOLD == <<27, 91, 49, 109>>
RED == <<27, 91, 51, 49, 109>>
GREEN == <<27, 91, 51, 50, 109>>
YELLOW == <<27, 91, 51, 51, 109>>
BLUE == <<27, 91, 51, 52, 109>>
MAGENTA == <<27, 91, 51, 53, 109>>
CYAN == <<27, 91, 51, 54, 109>>
WHITE == <<27, 91, 51, 55, 109>>

color_level(ch) ==
    IF ch = <<69>> THEN BOLD \o RED \o ch \o RESET
    ELSE IF ch = <<87>> THEN BOLD \o YELLOW \o ch \o RESET
    ELSE IF ch = <<73>> THEN BOLD \o GREEN \o ch \o RESET
    ELSE IF ch = <<68>> THEN BOLD \o BLUE \o ch \o RESET
    ELSE IF ch = <<84>> THEN BOLD \o MAGENTA \o ch \o RESET
    ELSE BOLD \o WHITE \o ch \o RESET

color_func(func) == BOLD \o CYAN \o func \o RESET

----------------------------------------------------------------------------
(* should_use_color *)

\* a plausible slip: FORCE_COLOR is looked at before NO_COLOR
should_use_color_force_first ==
    IF env_FORCE_COLOR \notin {"unset", "0", ""} THEN TRUE
    ELSE IF env_NO_COLOR # "unset" THEN FALSE
    ELSE is_terminal

should_use_color ==
    IF env_NO_COLOR # "unset" THEN FALSE
    ELSE IF env_FORCE_COLOR # "unset" /\ env_FORCE_COLOR # "0" /\ env_FORCE_COLOR # ""
         THEN TRUE
    ELSE is_terminal

----------------------------------------------------------------------------
(* the body of main's loop *)

(* A usize is the string of its decimal digits without leading zeros (0 is  *)
(* the empty string): the values of a 64-bit usize do not fit the integers  *)
(* of the model checker, and the overflow checks are comparisons of digits. *)

\* usize::MAX = 18446744073709551615 (2^64 - 1)
USIZE_MAX == <<49, 56, 52, 52, 54, 55, 52, 52, 48, 55, 51, 55, 48, 57, 53, 53, 49, 54, 49, 53>>

\* isize::MAX = 9223372036854775807 (2^63 - 1)
ISIZE_MAX == <<57, 50, 50, 51, 51, 55, 50, 48, 51, 54, 56, 53, 52, 55, 55, 53, 56, 48, 55>>

IsDigits(s) == \A j \in 1..Len(s) : s[j] \in 48..57

\* the digits without their leading zeros
StripZeros(d) ==
    LET nz == {j \in 1..Len(d) : d[j] # ZERO}
    IN  IF nz = {} THEN <<>>
        ELSE SubSeq(d, CHOOSE j \in nz : \A k \in nz : j <= k, Len(d))

\* a <= b, for digit strings without leading zeros
DecLeq(a, b) ==
    \/ Len(a) < Len(b)
    \/ /\ Len(a) = Len(b)
       /\ \/ a = b
          \/ \E j \in 1..Len(a) :
                /\ a[j] < b[j]
                /\ \A k \in 1..(j - 1) : a[k] = b[k]

\* the digits of d * k + carry, for a digit k
RECURSIVE MulDec(_, _, _)
MulDec(d, k, carry) ==
    IF d = <<>> THEN (IF carry = 0 THEN <<>> ELSE <<ZERO + carry>>)
    ELSE LET x == (d[Len(d)] - ZERO) * k + carry
         IN  MulDec(SubSeq(d, 1, Len(d) - 1), k, x \div 10) \o <<ZERO + (x % 10)>>

\* the number a digit string of the model's range stands for
RECURSIVE DecimalValue(_)
DecimalValue(d) ==
    IF d = <<>> THEN 0
    ELSE DecimalValue(SubSeq(d, 1, Len(d) - 1)) * 10 + (d[Len(d)] - ZERO)

\* str::parse::<usize>: an optional '+', then at least one digit, the value at
\* most usize::MAX; None is Err
parse_usize(s) ==
    IF s = <<>> THEN None
    ELSE LET digits == IF s[1] = PLUS THEN Tail(s) ELSE s
         IN  IF digits = <<>> \/ ~IsDigits(digits) THEN None
             ELSE IF ~DecLeq(StripZeros(digits), USIZE_MAX) THEN None
             ELSE Some(StripZeros(digits))

\* usize::saturating_mul by a digit
saturating_mul(a, k) ==
    IF DecLeq(StripZeros(MulDec(a, k, 0)), USIZE_MAX)
    THEN StripZeros(MulDec(a, k, 0))
    ELSE USIZE_MAX

\* depth of the line: fields.get("depth").and_then(parse).unwrap_or(0)
depth_of(fields) ==
    LET key == <<100, 101, 112, 116, 104>>
    IN  IF key \in DOMAIN fields /\ parse_usize(fields[key]).tag = "Some"
        THEN parse_usize(fields[key]).s
        ELSE <<>>

\* " ".repeat(depth.saturating_mul(4)): a capacity above isize::MAX panics
\* ("capacity overflow")
indent_of(depth) ==
    LET n == saturating_mul(depth, 4)
    IN  IF ~DecLeq(n, ISIZE_MAX) THEN Panic ELSE Some(repeat(SPACE, DecimalValue(n)))

\* the locals of one iteration of main's loop over the mapping `fields`, and
\* the text it pushes to `out`; panic when the iteration panics
loop_body(fields, color) ==
    LET ts       == get_or(fields, <<116, 115>>, <<>>)
        t        == format_time_hms_millis(ts)
        time     == IF t.tag = "Some" THEN t.s
                    ELSE <<63, 63, 58, 63, 63, 58, 63, 63, 46, 63, 63, 63>>
        level    == get_or(fields, <<108, 101, 118, 101, 108>>, <<>>)
        level_ch == map_level(level)
        depth    == depth_of(fields)
        file     == get_or(fields, <<102, 105, 108, 101>>, <<QUESTION>>)
        line_no  == get_or(fields, <<108, 105, 110, 101>>, <<QUESTION>>)
        func     == get_or(fields, <<102, 117, 110, 99>>, <<QUESTION>>)
        msg      == get_or(fields, <<109, 115, 103>>, <<>>)
        ind      == indent_of(depth)
        indent   == IF ind.tag = "Some" THEN ind.s ELSE <<>>
        lvl      == IF color THEN color_level(level_ch) ELSE level_ch
        func_disp == IF color THEN color_func(func) ELSE func
    IN  [panic  |-> t.tag = "Panic" \/ ind.tag = "Panic",
         indent |-> indent,
         msg    |-> msg,
         text   |-> time \o <<32, 91>> \o lvl \o <<93, 32>> \o file \o <<58>>
                    \o line_no \o <<32, 124, 32>> \o indent \o func_disp
                    \o <<58, 32>> \o msg \o <<LF>>]

NoLocals == [panic |-> FALSE, indent |-> <<>>, msg |-> <<>>, text |-> <<>>]

\* the characters of Unicode's White_Space property, which str::trim removes
WhiteSpaceChars ==
    {<<9>>, <<10>>, <<11>>, <<12>>, <<13>>, <<32>>, <<194, 133>>, <<194, 160>>,
     <<225, 154, 128>>, <<226, 128, 168>>, <<226, 128, 169>>, <<226, 128, 175>>,
     <<226, 129, 159>>, <<227, 128, 128>>}
    \cup {<<226, 128, b>> : b \in 128..138}

\* the widths of the white space characters s starts / ends with
LeadingWhiteSpace(s) == {w \in 1..3 : w <= Len(s) /\ SubSeq(s, 1, w) \in WhiteSpaceChars}

TrailingWhiteSpace(s) ==
    {w \in 1..3 : w <= Len(s) /\ SubSeq(s, Len(s) - w + 1, Len(s)) \in WhiteSpaceChars}

RECURSIVE trim_start(_)
trim_start(s) ==
    IF LeadingWhiteSpace(s) = {} THEN s
    ELSE trim_start(SubSeq(s, 1 + (CHOOSE w \in LeadingWhiteSpace(s) : TRUE), Len(s)))

RECURSIVE trim_end(_)
trim_end(s) ==
    IF TrailingWhiteSpace(s) = {} THEN s
    ELSE trim_end(SubSeq(s, 1, Len(s) - (CHOOSE w \in TrailingWhiteSpace(s) : TRUE)))

\* str::trim of a UTF-8 string
trim(s) == trim_end(trim_start(s))

\* whether io::Lines yields Ok for the line: its bytes are UTF-8 (every byte
\* starts a character that is complete, or continues one)
IsUtf8(s) ==
    \A j \in 1..Len(s) :
        \/ s[j] < 128
        \/ /\ s[j] \in 194..244
           /\ j + Utf8Width(s[j]) - 1 <= Len(s)
           /\ \A k \in (j + 1)..(j + Utf8Width(s[j]) - 1) : s[k] \in 128..191
        \/ /\ s[j] \in 128..191
           /\ \E d \in 1..3 :
                 /\ j - d >= 1
                 /\ s[j - d] \in 194..244
                 /\ Utf8Width(s[j - d]) > d
                 /\ \A k \in (j - d + 1)..(j - 1) : s[k] \in 128..191

----------------------------------------------------------------------------
(* main: the driver *)

\* the lines the input streams of the driver are made of
SampleLines ==
    {<<>>,                                                  \* (empty line)
     <<32, 32, 9>>,                                         \* two spaces and a tab
     <<255>>,                                               \* a byte that is no UTF-8
     <<98, 97, 100>>,                                       \* bad
     <<97, 61, 49, 32, 98, 97, 100, 32, 98, 61, 50>>,       \* a=1 bad b=2
     <<116, 115, 61, 84, 49, 46, 53, 90, 32, 108, 101, 118, 101, 108, 61, 119,
       97, 114, 110, 32, 100, 101, 112, 116, 104, 61, 50, 32, 102, 105, 108,
       101, 61, 102, 32, 108, 105, 110, 101, 61, 55, 32, 102, 117, 110, 99, 61,
       103, 32, 109, 115, 103, 61, 34, 120, 32, 121, 34>>,
                 \* ts=T1.5Z level=warn depth=2 file=f line=7 func=g msg="x y"
     <<109, 115, 103, 61, 104, 105>>,                       \* msg=hi
     <<109, 115, 103, 61, 34, 97, 92, 110, 98, 34>>,        \* msg="a\nb"
     <<116, 115, 61, 84, 46, 195, 169, 195, 169, 90>>,      \* ts=T.ééZ
     <<100, 101, 112, 116, 104, 61, 50, 51, 48, 53, 56, 52, 51, 48, 48, 57, 50,
       49, 51, 54, 57, 51, 57, 53, 50>>,                    \* depth=2305843009213693952
     <<100, 101, 112, 116, 104, 61, 120>>,                  \* depth=x
     <<109, 115, 103, 61, 27, 91, 51, 49, 109>>}            \* msg=ESC[31m

\* the characters the one-line streams are made of: space tab = " \ a é
LineAlphabet == {<<32>>, <<9>>, <<61>>, <<34>>, <<92>>, <<97>>, <<195, 169>>}

Streams(lines, n) == UNION {[1..k -> lines] : k \in 0..n}

NoCall == /\ arg = <<>>
          /\ ret = None
          /\ arg2 = <<>>
          /\ ret2 = None

InitDriver ==
    /\ env_NO_COLOR \in {"unset", "set"}
    /\ env_FORCE_COLOR \in {"unset", "", "0", "1"}
    /\ is_terminal \in BOOLEAN
    /\ use_color = FALSE
    /\ next = 1
    /\ out = <<>>
    /\ stdout = <<>>
    /\ locals = NoLocals
    /\ pc = "start"
    /\ NoCall

\* streams of sample lines
Init ==
    /\ InitDriver
    /\ stdin \in Streams(SampleLines, MaxLines)

\* streams of one line, every short line over LineAlphabet
InitLine ==
    /\ InitDriver
    /\ env_FORCE_COLOR = "unset"
    /\ is_terminal = TRUE
    /\ stdin \in {<<l>> : l \in Strings(LineAlphabet, MaxLineLen)}

\* let use_color = should_use_color(&stdout)
Start ==
    /\ pc = "start"
    /\ use_color' = should_use_color
    /\ pc' = "loop"
    /\ UNCHANGED <<env_NO_COLOR, env_FORCE_COLOR, is_terminal, stdin, next, out,
                   stdout, locals, callVars>>

AtLine == pc = "loop" /\ next <= Len(stdin)

Skip ==
    /\ next' = next + 1
    /\ UNCHANGED <<env_NO_COLOR, env_FORCE_COLOR, is_terminal, use_color, stdin,
                   out, stdout, locals, pc, callVars>>

\* let Ok(line) = line else { continue }
SkipUnreadable ==
    /\ AtLine
    /\ ~IsUtf8(stdin[next])
    /\ Skip

\* if line.is_empty() { continue; }
SkipBlank ==
    /\ AtLine
    /\ IsUtf8(stdin[next])
    /\ trim(stdin[next]) = <<>>
    /\ Skip

Accepted(line) ==
    /\ IsUtf8(line)
    /\ trim(line) # <<>>
    /\ parse_logfmt(trim(line)).ok

\* Err(_) => continue
SkipMalformed ==
    /\ AtLine
    /\ IsUtf8(stdin[next])
    /\ trim(stdin[next]) # <<>>
    /\ ~parse_logfmt(trim(stdin[next])).ok
    /\ Skip

\* the rest of the loop body: the line is formatted and pushed to out
FormatLine ==
    /\ AtLine
    /\ Accepted(stdin[next])
    /\ LET l == loop_body(parse_logfmt(trim(stdin[next])).m, use_color)
       IN  /\ ~l.panic
           /\ locals' = l
           /\ out' = out \o l.text
    /\ next' = next + 1
    /\ UNCHANGED <<env_NO_COLOR, env_FORCE_COLOR, is_terminal, use_color, stdin,
                   stdout, pc, callVars>>

\* the loop body panics: the process ends and `out` is never printed
FormatPanics ==
    /\ AtLine
    /\ Accepted(stdin[next])
    /\ loop_body(parse_logfmt(trim(stdin[next])).m, use_color).panic
    /\ pc' = "panicked"
    /\ UNCHANGED <<env_NO_COLOR, env_FORCE_COLOR, is_terminal, use_color, stdin,
                   next, out, stdout, locals, callVars>>

\* print!("{out}") at the end of the input
PrintOut ==
    /\ pc = "loop"
    /\ next > Len(stdin)
    /\ stdout' = out
    /\ pc' = "done"
    /\ UNCHANGED <<env_NO_COLOR, env_FORCE_COLOR, is_terminal, use_color, stdin,
                   next, out, locals, callVars>>

Next ==
    \/ Start
    \/ SkipUnreadable
    \/ SkipBlank
    \/ SkipMalformed
    \/ FormatLine
    \/ FormatPanics
    \/ PrintOut

Spec == Init /\ [][Next]_vars

\* over LineAlphabet every line is UTF-8 and no loop body panics
NextLine ==
    \/ Start
    \/ SkipBlank
    \/ SkipMalformed
    \/ FormatLine
    \/ PrintOut

SpecLine == InitLine /\ [][NextLine]_vars

----------------------------------------------------------------------------
(* parse_logfmt and format_time_hms_millis called on their own *)

\* the characters of the lines given to parse_logfmt: space = " \ a n é
ParseAlphabet == {<<32>>, <<61>>, <<34>>, <<92>>, <<97>>, <<110>>, <<195, 169>>}

\* the characters of the timestamps: T Z + - . 1 é
TsAlphabet == {<<84>>, <<90>>, <<43>>, <<45>>, <<46>>, <<49>>, <<195, 169>>}

NoDriver ==
    /\ env_NO_COLOR = "unset"
    /\ env_FORCE_COLOR = "unset"
    /\ is_terminal = FALSE
    /\ use_color = FALSE
    /\ stdin = <<>>
    /\ next = 1
    /\ out = <<>>
    /\ stdout = <<>>
    /\ locals = NoLocals

\* main calls parse_logfmt with trimmed, non-empty lines
InitParse ==
    /\ NoDriver
    /\ pc = "call"
    /\ arg \in {s \in Strings(ParseAlphabet, MaxLen) : s # <<>> /\ trim(s) = s}
    /\ ret = None
    /\ arg2 = <<>>
    /\ ret2 = None

CallParse ==
    /\ pc = "call"
    /\ ret' = parse_logfmt(arg)
    /\ pc' = "parsed"
    /\ UNCHANGED <<driverVars, arg, arg2, ret2>>

(* The program has no serialiser: Escape, Quoted, Serialize and the actions   *)
(* Reserialize and QuoteValue build the second line of the round-trip and    *)
(* quoting properties, which Reparse hands to parse_logfmt again.            *)

\* a value between double quotes, its '"' and '\' escaped
RECURSIVE Escape(_)
Escape(v) ==
    IF v = <<>> THEN <<>>
    ELSE (IF Head(v) \in {QUOTE, BACKSLASH} THEN <<BACKSLASH, Head(v)>> ELSE <<Head(v)>>)
         \o Escape(Tail(v))

Quoted(key, val) == key \o <<EQ, QUOTE>> \o Escape(val) \o <<QUOTE>>

\* the fields of a mapping as key="value" pairs, separated by spaces
RECURSIVE Serialize(_)
Serialize(m) ==
    IF DOMAIN m = {} THEN <<>>
    ELSE LET key  == CHOOSE k \in DOMAIN m : TRUE
             more == [k \in DOMAIN m \ {key} |-> m[k]]
         IN  Quoted(key, m[key])
             \o (IF DOMAIN more = {} THEN <<>> ELSE <<SPACE>> \o Serialize(more))

Reserialize ==
    /\ pc = "parsed"
    /\ ret.ok
    /\ arg2' = Serialize(ret.m)
    /\ pc' = "serialized"
    /\ UNCHANGED <<driverVars, arg, ret, ret2>>

HasWhitespace(s) == \E j \in 1..Len(s) : is_ascii_whitespace(s[j])

\* the line is one token key=value whose value needs no quoting
IsPlainToken(s) ==
    LET k == find(s, EQ)
    IN  /\ k # 0
        /\ ~HasWhitespace(s)
        /\ \A j \in (k + 1)..Len(s) : s[j] \notin {QUOTE, BACKSLASH}

PlainKey(s) == SubSeq(s, 1, find(s, EQ) - 1)

PlainValue(s) == SubSeq(s, find(s, EQ) + 1, Len(s))

\* key=value rewritten as key="value"
QuoteValue ==
    /\ pc = "parsed"
    /\ IsPlainToken(arg)
    /\ arg2' = PlainKey(arg) \o <<EQ, QUOTE>> \o PlainValue(arg) \o <<QUOTE>>
    /\ pc' = "quoted"
    /\ UNCHANGED <<driverVars, arg, ret, ret2>>

Reparse ==
    /\ pc \in {"serialized", "quoted"}
    /\ ret2' = parse_logfmt(arg2)
    /\ pc' = IF pc = "serialized" THEN "reparsed" ELSE "requoted"
    /\ UNCHANGED <<driverVars, arg, ret, arg2>>

NextParse ==
    \/ CallParse
    \/ Reserialize
    \/ QuoteValue
    \/ Reparse

SpecParse == InitParse /\ [][NextParse]_vars

InitTime ==
    /\ NoDriver
    /\ pc = "call"
    /\ arg \in Strings(TsAlphabet, MaxTsLen)
    /\ ret = None
    /\ arg2 = <<>>
    /\ ret2 = None

CallFormatTime ==
    /\ pc = "call"
    /\ ret' = format_time_hms_millis(arg)
    /\ pc' = "returned"
    /\ UNCHANGED <<driverVars, arg, arg2, ret2>>

NextTime == CallFormatTime

SpecTime == InitTime /\ [][NextTime]_vars

----------------------------------------------------------------------------
(* C1: the output is the concatenation of the formatted accepted lines *)

\* the text of an accepted line; a line whose formatting panics has none
Formatted(line, color) ==
    LET l == loop_body(parse_logfmt(trim(line)).m, color)
    IN  IF l.panic THEN <<>> ELSE l.text

RECURSIVE ExpectedOutput(_, _)
ExpectedOutput(lines, color) ==
    IF lines = <<>> THEN <<>>
    ELSE (IF Accepted(Head(lines)) THEN Formatted(Head(lines), color) ELSE <<>>)
         \o ExpectedOutput(Tail(lines), color)

\* C1: when the process has ended, its output is exactly the concatenation, in
\* input order, of the formatted lines of the accepted input lines; blank and
\* unparsable lines add nothing and do not stop the lines after them.
C1_OutputIsConcatenation ==
    pc \in {"done", "panicked"} => stdout = ExpectedOutput(stdin, use_color)

----------------------------------------------------------------------------
(* C2: a token without '=' fails the whole line *)

Min(S) == CHOOSE x \in S : \A y \in S : x <= y

\* what is left of a line after a quoted value (s starts after the opening quote)
RECURSIVE AfterQuoted(_)
AfterQuoted(s) ==
    IF s = <<>> THEN <<>>
    ELSE IF Head(s) = QUOTE THEN Tail(s)
    ELSE IF Head(s) = BACKSLASH THEN AfterQuoted(SubSeq(s, 3, Len(s)))
    ELSE AfterQuoted(Tail(s))

\* what is left of a line after the value that starts it
AfterValue(s) ==
    IF s # <<>> /\ Head(s) = QUOTE THEN AfterQuoted(Tail(s))
    ELSE LET ws == {j \in 1..Len(s) : is_ascii_whitespace(s[j])}
         IN  IF ws = {} THEN <<>> ELSE SubSeq(s, Min(ws), Len(s))

\* the grammar's reading of a line, token by token: some token's key run is
\* followed by whitespace or by the end of the line instead of '='
RECURSIVE HasMalformedToken(_)
HasMalformedToken(s) ==
    IF s = <<>> THEN FALSE
    ELSE IF is_ascii_whitespace(Head(s)) THEN HasMalformedToken(Tail(s))
    ELSE LET stops == {j \in 1..Len(s) : s[j] = EQ \/ is_ascii_whitespace(s[j])}
         IN  IF stops = {} THEN TRUE
             ELSE IF s[Min(stops)] # EQ THEN TRUE
             ELSE HasMalformedToken(AfterValue(SubSeq(s, Min(stops) + 1, Len(s))))

\* C2: once the loop has read a line that holds a token whose key run is not
\* followed by '=', wherever the token stands, parse_logfmt has failed as a
\* whole and the driver has emitted nothing for the line.
C2_MalformedTokenFailsLine ==
    (next > 1 /\ HasMalformedToken(trim(stdin[1])))
        => /\ ~parse_logfmt(trim(stdin[1])).ok
           /\ parse_logfmt(trim(stdin[1])).m = <<>>
           /\ out = <<>>
           /\ stdout = <<>>

\* the line `a=a a` (a well-formed token, then a malformed one) has been read
\* and the process has ended without output
C2_Witness ==
    /\ pc = "done"
    /\ stdin = <<(<<97, 61, 97, 32, 97>>)>>
    /\ HasMalformedToken(trim(stdin[1]))
    /\ stdout = <<>>

----------------------------------------------------------------------------
(* C3: formatting is total once parsing succeeds *)

\* C3: the driver formats every accepted line without failing or aborting: the
\* process never ends in a panic.
C3_FormattingTotal == pc # "panicked"

----------------------------------------------------------------------------
(* C4: NO_COLOR *)

\* the lines read so far
LinesRead == SubSeq(stdin, 1, next - 1)

RECURSIVE CountIn(_, _)
CountIn(lines, b) ==
    IF lines = <<>> THEN 0 ELSE Count(Head(lines), b) + CountIn(Tail(lines), b)

\* C4 as stated: with NO_COLOR set the output holds no ANSI escape sequence
\* (no ESC byte), for every input stream.
C4_NoEscapeInOutput ==
    env_NO_COLOR = "set" => Count(out, ESC) = 0 /\ Count(stdout, ESC) = 0

\* C4 (amended): with NO_COLOR set, whatever FORCE_COLOR and the terminal are,
\* colour mode is off and the formatter adds no escape sequence: the output
\* holds no more ESC bytes than the input lines read so far.
C4_NoEscapeAdded ==
    (env_NO_COLOR = "set" /\ pc # "start")
        => /\ ~use_color
           /\ Count(out, ESC) <= CountIn(LinesRead, ESC)
           /\ Count(stdout, ESC) <= CountIn(LinesRead, ESC)

\* NO_COLOR and FORCE_COLOR=1 are both set, stdout is a terminal, and a line
\* has been formatted and printed
C4_Witness ==
    /\ pc = "done"
    /\ env_NO_COLOR = "set"
    /\ env_FORCE_COLOR = "1"
    /\ is_terminal
    /\ stdout # <<>>
    /\ Count(stdout, ESC) = 0

----------------------------------------------------------------------------
(* C5: the quoted value is the reference decoding *)

\* the character an escape `\c` stands for
RefEscape(c) ==
    IF c = <<LOWER_N>> THEN <<LF>>
    ELSE IF c = <<LOWER_T>> THEN <<TAB>>
    ELSE IF c = <<LOWER_R>> THEN <<CR>>
    ELSE c

\* the reference decoding of the characters after an opening quote, up to the
\* first unescaped quote or the end of input
RECURSIVE RefDecode(_)
RefDecode(cs) ==
    IF cs = <<>> THEN <<>>
    ELSE IF Head(cs) = <<QUOTE>> THEN <<>>
    ELSE IF Head(cs) = <<BACKSLASH>>
         THEN IF Len(cs) = 1 THEN <<>>
              ELSE RefEscape(cs[2]) \o RefDecode(SubSeq(cs, 3, Len(cs)))
    ELSE Head(cs) \o RefDecode(Tail(cs))

\* the line starts with a token key="...
StartsQuoted(s) ==
    /\ find(s, EQ) # 0
    /\ find(s, EQ) < Len(s)
    /\ s[find(s, EQ) + 1] = QUOTE
    /\ ~HasWhitespace(SubSeq(s, 1, find(s, EQ) - 1))

\* what follows the opening quote of the first token
QuotedBody(s) == SubSeq(s, find(s, EQ) + 2, Len(s))

\* C5: for a line that starts with key="... and holds no later token, the
\* value parse_logfmt gives the key is the reference decoding of the quoted
\* text.
C5_QuotedValueDecoding ==
    (/\ pc = "parsed"
     /\ StartsQuoted(arg)
     /\ find(AfterQuoted(QuotedBody(arg)), EQ) = 0
     /\ ret.ok)
        => /\ PlainKey(arg) \in DOMAIN ret.m
           /\ ret.m[PlainKey(arg)] = RefDecode(Utf8Chars(QuotedBody(arg)))

----------------------------------------------------------------------------
(* C6: parse, re-serialise, parse *)

NoControlCharacters(m) ==
    \A k \in DOMAIN m : \A j \in 1..Len(m[k]) : m[k][j] >= 32 /\ m[k][j] # 127

\* C6: for a well-formed line whose values hold no control characters, parsing
\* the re-serialised fields gives the mapping of the first parse.
C6_RoundTrip ==
    (pc = "reparsed" /\ NoControlCharacters(ret.m)) => ret2 = ret

----------------------------------------------------------------------------
(* C7: format_time_hms_millis *)

CharPositions(cs, c) == {j \in 1..Len(cs) : cs[j] = <<c>>}

FirstOf(cs, c) == IF CharPositions(cs, c) = {} THEN 0 ELSE Min(CharPositions(cs, c))

LastOf(cs, c) ==
    IF CharPositions(cs, c) = {} THEN 0
    ELSE CHOOSE j \in CharPositions(cs, c) : \A k \in CharPositions(cs, c) : k <= j

\* three fractional digits: the first three, or all of them padded with zeros
ThreeDigits(frac) ==
    IF Len(frac) >= 3 THEN SubSeq(frac, 1, 3)
    ELSE frac \o [j \in 1..(3 - Len(frac)) |-> <<ZERO>>]

\* the timestamp normaliser as the claim words it, over characters
RefNormalize(ts) ==
    LET cs == Utf8Chars(ts)
        t  == FirstOf(cs, UPPER_T)
        rest == SubSeq(cs, t + 1, Len(cs))
        end == IF FirstOf(rest, UPPER_Z) # 0 THEN FirstOf(rest, UPPER_Z)
               ELSE IF FirstOf(rest, PLUS) # 0 THEN FirstOf(rest, PLUS)
               ELSE LastOf(rest, MINUS)
        time_part == SubSeq(rest, 1, end - 1)
        dot == FirstOf(time_part, DOT)
    IN  IF t = 0 \/ end = 0 THEN None
        ELSE IF dot = 0 THEN Some(Flatten(time_part) \o <<DOT, ZERO, ZERO, ZERO>>)
        ELSE Some(Flatten(SubSeq(time_part, 1, dot - 1)) \o <<DOT>>
                  \o Flatten(ThreeDigits(SubSeq(time_part, dot + 1, Len(time_part)))))

\* C7: for every string ts the result is None or a string: None without a 'T'
\* or without a zone marker after it, else the time of day before the zone
\* marker with exactly three fractional digits.
C7_TimeOfDayWithMillis == pc = "returned" => ret = RefNormalize(arg)

----------------------------------------------------------------------------
(* C8: one output line per accepted line *)

\* C8: the text emitted for an accepted line holds exactly one newline, its
\* last character.
C8_OneNewlinePerLine ==
    locals.text # <<>>
        => /\ Count(locals.text, LF) = 1
           /\ locals.text[Len(locals.text)] = LF

----------------------------------------------------------------------------
(* C9: the indentation is depth * 4 spaces *)

\* the decimal digits of a natural number
RECURSIVE ToDecimal(_)
ToDecimal(n) == IF n = 0 THEN <<>> ELSE ToDecimal(n \div 10) \o <<ZERO + (n % 10)>>

\* the depth the line states, in digits: its depth field when that is a
\* non-negative integer, 0 when the field is absent or no such integer
StatedDepth(line) ==
    LET text == get_or(parse_logfmt(trim(line)).m, <<100, 101, 112, 116, 104>>, <<>>)
    IN  IF text # <<>> /\ IsDigits(text) THEN StripZeros(text) ELSE <<>>

\* C9: an accepted line is emitted with exactly depth * 4 spaces of
\* indentation, whatever non-negative integer its depth field states, and
\* with none when depth is absent or no such integer: the indentation of the
\* line just formatted is that many spaces, and no line fails on its
\* indentation.
C9_IndentIsFourTimesDepth ==
    /\ (pc # "start" /\ next > 1 /\ Accepted(stdin[next - 1]))
          => /\ \A j \in 1..Len(locals.indent) : locals.indent[j] = SPACE
             /\ ToDecimal(Len(locals.indent))
                    = StripZeros(MulDec(StatedDepth(stdin[next - 1]), 4, 0))
    /\ pc = "panicked"
          => indent_of(depth_of(parse_logfmt(trim(stdin[next])).m)).tag # "Panic"

----------------------------------------------------------------------------
(* C10: quoting a value that needs no quoting *)

\* C10: for a line key=value whose value holds no whitespace, no '"' and no
\* '\', parse_logfmt of key="value" returns the mapping of key=value, the key
\* mapped to the value unchanged.
C10_QuotingPreservesValue ==
    pc = "requoted"
        => /\ ret = Ok(PlainKey(arg) :> PlainValue(arg))
           /\ ret2 = ret

====
